---- MODULE Spec2Model ----
(***************************************************************************)
(* Progress tracking and persistence of the course player.                 *)
(*                                                                         *)
(*   - the progress slice (reducers and the load/save/import thunks),      *)
(*   - the progress manager (save with retry, load with fallback,          *)
(*     validation, merge, debounced save),                                 *)
(*   - the file-system service and the main-process IPC handlers that      *)
(*     read and write ~/.course-player/progress.json,                      *)
(*   - the periodic auto-save effect of the video player.                  *)
(*                                                                         *)
(* Timestamps (new Date().toISOString()) are integers read from a          *)
(* monotone clock; an optional field that is undefined holds -1 (numbers,  *)
(* timestamps) or "" (strings).  lastSync is not modelled.                 *)
(***************************************************************************)
EXTENDS Integers, Sequences, FiniteSets, TLC

VARIABLES
    \* ---- ProgressState (progressSlice.ts initialState) ----
    courses,      \* courseId -> CourseProgress entry (present = FALSE: no entry)
    version,      \* schema tag
    isLoading,
    isSaving,
    error,        \* "" is null
    isDirty,
    \* ---- outside the store ----
    clock,        \* the wall clock read by new Date()
    disk,         \* ~/.course-player/progress.json
    saves,        \* saveProgress thunks in flight, by slot
    loadSt,       \* the loadProgress thunk
    importSt,     \* the importProgress thunk (dialog open) and its handler
    \* ---- the closure of one createDebouncedSave() ----
    timeoutId,
    pendingData,
    pendingResolve,
    pendingReject,
    timers,       \* timers set by setTimeout and not yet fired or cleared
    running,      \* timer callbacks awaiting saveProgressWithRetry
    promises,     \* state of the promise returned by each call
                  \* (call k passes snapshot k, sets timer k, gets promise k;
                  \*  0 is null)
    \* ---- observation (history) ----
    thrown,       \* the last dispatched reducer raised
    last,         \* the last reducer dispatched or thunk settled on the store
    lastDone,     \* the last saveProgress thunk that settled
    nOps,         \* reducers dispatched so far
    nIo,          \* loads and imports dispatched so far
    calls,        \* snapshots passed to the debounced save, in call order
    writes,       \* snapshots handed to saveProgressWithRetry by the scheduler
    written,      \* snapshots the backing store accepted from the scheduler
    arrival,      \* for each call, what the scheduler was doing when it arrived
    \* ---- the courses slice ----
    loadedCourses,    \* state.courses.courses, a list of Course
    selectedCourseId, \* "" is null
    courseFolders,    \* a list of folder paths
    \* ---- the settings dialog ----
    snackbar,         \* the notification it shows
    exportSt,         \* the exportProgress thunk
    \* ---- arguments and result of a library function under test ----
    input,
    output

storeVars == <<courses, version, isLoading, isSaving, error, isDirty>>
ioVars    == <<disk, saves, loadSt, importSt>>
debVars   == <<timeoutId, pendingData, pendingResolve, pendingReject, timers,
               running, promises, calls, writes, written, arrival>>
histVars  == <<thrown, last, lastDone, nOps, nIo>>
libVars   == <<loadedCourses, selectedCourseId, courseFolders, input, output>>
dialogVars == <<snackbar, exportSt>>
vars      == <<storeVars, clock, ioVars, debVars, histVars, libVars, dialogVars>>

----------------------------------------------------------------------------
\* Bounds of the model

CourseIds == {"c1", "c2"}
LessonIds == {"l1", "l2"}
MaxOps    == 2      \* reducers dispatched in one behaviour
MaxIo     == 1      \* loads and imports dispatched in one behaviour
MaxSaves  == 2      \* saveProgress thunks in flight at one time
MaxCalls  == 3      \* calls of the debounced save in one behaviour

Times  == {0, 1}    \* playback positions and watched seconds
Stamps == {0, 1}    \* timestamps

\* the values new Date() can return when the clock reads t
Now(t) == {n \in Stamps : n >= t}

----------------------------------------------------------------------------
\* Data model (src/types/progress.ts)

\* a string field that is undefined
Undefined == "undefined"

NoLesson ==
    [present |-> FALSE, completed |-> FALSE, watchedDuration |-> 0,
     lastPosition |-> 0, lastWatched |-> -1, completedAt |-> -1]

NoLessons == [l \in LessonIds |-> NoLesson]

NoCourse ==
    [present |-> FALSE, lastWatched |-> -1, currentLesson |-> Undefined,
     currentTime |-> -1, hasLessons |-> FALSE, lessons |-> NoLessons,
     completedLessons |-> -1, totalLessons |-> -1]

NoCourses == [c \in CourseIds |-> NoCourse]

\* Object.values(lessons).filter(l => l.completed).length
completedCount(lessons) ==
    Cardinality({l \in LessonIds : lessons[l].present /\ lessons[l].completed})

\* courseProgress.completedLessons || 0
cachedCount(e) == IF e.completedLessons = -1 THEN 0 ELSE e.completedLessons

\* state.courses[courseId]?.lessons[lessonId] is truthy
hasRecord(cs, c, l) ==
    cs[c].present /\ cs[c].hasLessons /\ cs[c].lessons[l].present

\* reading state.courses[courseId].lessons[lessonId] raises a TypeError when the
\* entry exists and has no lessons map
lessonsUndefined(cs, c) == cs[c].present /\ ~cs[c].hasLessons

----------------------------------------------------------------------------
\* Progress reducers (progressSlice.ts), as functions of the courses map.
\* Each is applied only where it does not raise; see the actions below.

\* A LessonProgressUpdate: the fields a caller passes
Partial(hc, cv, hw, w) ==
    [hasCompleted |-> hc, completed |-> cv, hasWatched |-> hw,
     watchedDuration |-> w, hasPos |-> hw, lastPosition |-> w]

Partials ==
    { Partial(FALSE, FALSE, FALSE, 0),     \* {}
      Partial(FALSE, FALSE, TRUE, 1),      \* { watchedDuration, lastPosition }
      Partial(TRUE, TRUE, FALSE, 0),       \* { completed: true }
      Partial(TRUE, FALSE, FALSE, 0) }     \* { completed: false }

NewLessonAt(pos) ==
    [present |-> TRUE, completed |-> FALSE, watchedDuration |-> 0,
     lastPosition |-> pos, lastWatched |-> -1, completedAt |-> -1]

NewCourse(now, lessonId, time, total, done) ==
    [present |-> TRUE, lastWatched |-> now, currentLesson |-> lessonId,
     currentTime |-> time, hasLessons |-> TRUE, lessons |-> NoLessons,
     completedLessons |-> done, totalLessons |-> total]

\* the course entry after "initialize course progress if it doesn't exist"
withCourse(cs, c, fresh) == IF cs[c].present THEN cs[c] ELSE fresh

\* the lesson record after "initialize lesson progress if it doesn't exist"
withLesson(entry, l, pos) ==
    IF entry.lessons[l].present THEN entry.lessons[l] ELSE NewLessonAt(pos)

\* { ...lesson, ...progress, lastWatched: now }
mergePartial(lesson, p, now) ==
    [lesson EXCEPT
        !.completed       = IF p.hasCompleted THEN p.completed ELSE @,
        !.watchedDuration = IF p.hasWatched THEN p.watchedDuration ELSE @,
        !.lastPosition    = IF p.hasPos THEN p.lastPosition ELSE @,
        !.lastWatched     = now]

updateLessonProgressCourses(cs, c, l, p, now) ==
    LET e0 == withCourse(cs, c, NewCourse(now, l, 0, -1, -1))
        l0 == withLesson(e0, l, 0)
        e1 == [e0 EXCEPT !.lessons[l] = mergePartial(l0, p, now),
                         !.lastWatched = now]
    IN  [cs EXCEPT ![c] = e1]

setCurrentTimeCourses(cs, c, l, t, now) ==
    LET e0 == withCourse(cs, c, NewCourse(now, l, t, -1, -1))
        l0 == withLesson(e0, l, t)
        e1 == [e0 EXCEPT !.currentTime = t,
                         !.currentLesson = l,
                         !.lessons[l] = [l0 EXCEPT !.lastPosition = t]]
    IN  [cs EXCEPT ![c] = e1]

markLessonCompleteCourses(cs, c, l, now) ==
    LET ls == [cs[c].lessons EXCEPT ![l].completed = TRUE,
                                    ![l].completedAt = now]
    IN  [cs EXCEPT ![c].lessons = ls,
                   ![c].completedLessons = completedCount(ls)]

\* a markLessonIncomplete that forgets to delete completedAt
markLessonIncompleteKeepsStamp(cs, c, l) ==
    LET ls == [cs[c].lessons EXCEPT ![l].completed = FALSE]
    IN  [cs EXCEPT ![c].lessons = ls,
                   ![c].completedLessons = completedCount(ls)]

markLessonIncompleteCourses(cs, c, l) ==
    LET ls == [cs[c].lessons EXCEPT ![l].completed = FALSE,
                                    ![l].completedAt = -1]
    IN  [cs EXCEPT ![c].lessons = ls,
                   ![c].completedLessons = completedCount(ls)]

\* an initialisation that also starts the completed count of an entry afresh
initializeResetsCount(cs, c, totalLessons, now) ==
    IF ~cs[c].present
    THEN [cs EXCEPT ![c] = NewCourse(now, "", 0, totalLessons, 0)]
    ELSE [cs EXCEPT ![c].totalLessons = totalLessons, ![c].completedLessons = 0]

\* initializeCourseProgressFromCourse, with totalLessons already summed over the
\* sections of the course
initializeCourseProgressFromCourseCourses(cs, c, totalLessons, now) ==
    IF ~cs[c].present
    THEN [cs EXCEPT ![c] = NewCourse(now, "", 0, totalLessons, 0)]
    ELSE [cs EXCEPT ![c].totalLessons = totalLessons]

initializeCourseProgressCourses(cs, c, totalLessons, now) ==
    IF ~cs[c].present
    THEN [cs EXCEPT ![c] = NewCourse(now, "", 0, totalLessons, -1)]
    ELSE [cs EXCEPT ![c].totalLessons = totalLessons]

clearCourseProgressCourses(cs, c) == [cs EXCEPT ![c] = NoCourse]

----------------------------------------------------------------------------
\* JSON values as the validators see them: the type of the value at each
\* position the code inspects, and (val) the well-typed content.

JsKinds == {"undefined", "null", "false", "true", "zero", "number",
            "empty", "string", "array", "object"}

\* typeof v
TypeOf(k) ==
    CASE k = "undefined"           -> "undefined"
      [] k \in {"false", "true"}   -> "boolean"
      [] k \in {"zero", "number"}  -> "number"
      [] k \in {"empty", "string"} -> "string"
      [] OTHER                     -> "object"

\* !!v
Truthy(k) == k \in {"true", "number", "string", "array", "object"}

NumKind(n) == IF n = -1 THEN "undefined" ELSE IF n = 0 THEN "zero" ELSE "number"

\* the order in which for..in visits the keys
CourseOrder == <<"c1", "c2">>
LessonOrder == <<"l1", "l2">>

NoRawLesson ==
    [kind |-> "undefined", completed |-> "undefined",
     watchedDuration |-> "undefined", lastPosition |-> "undefined"]

NoRawCourse ==
    [kind |-> "undefined", lessons |-> "undefined", totalLessons |-> "undefined",
     completedLessons |-> "undefined",
     lesson |-> [l \in LessonIds |-> NoRawLesson], val |-> NoCourse]

\* JSON.stringify / JSON.parse of one CourseProgress entry of the store
ToRawLesson(lp) ==
    IF ~lp.present THEN NoRawLesson
    ELSE [kind |-> "object",
          completed |-> IF lp.completed THEN "true" ELSE "false",
          watchedDuration |-> NumKind(lp.watchedDuration),
          lastPosition |-> NumKind(lp.lastPosition)]

ToRawCourse(e) ==
    IF ~e.present THEN NoRawCourse
    ELSE [kind |-> "object",
          lessons |-> IF e.hasLessons THEN "object" ELSE "undefined",
          totalLessons |-> NumKind(e.totalLessons),
          completedLessons |-> NumKind(e.completedLessons),
          lesson |-> [l \in LessonIds |->
                        IF e.hasLessons THEN ToRawLesson(e.lessons[l])
                        ELSE NoRawLesson],
          val |-> e]

\* { courses, version } as written by save-progress
ToRaw(cs, ver) ==
    [root |-> "object", courses |-> "object", version |-> ver,
     course |-> [c \in CourseIds |-> ToRawCourse(cs[c])]]

\* { courses: {} }
EmptyRaw == ToRaw(NoCourses, "")

\* the CourseProgress entry the store holds for a parsed course value
FromRawCourse(rc) ==
    IF rc.kind = "undefined" THEN NoCourse
    ELSE LET has == rc.kind = "object" /\ rc.lessons \in {"object", "array"}
         IN [present |-> TRUE,
             lastWatched |-> IF rc.kind = "object" THEN rc.val.lastWatched ELSE -1,
             currentLesson |-> IF rc.kind = "object" THEN rc.val.currentLesson ELSE Undefined,
             currentTime |-> IF rc.kind = "object" THEN rc.val.currentTime ELSE -1,
             hasLessons |-> has,
             lessons |-> [l \in LessonIds |->
                            IF has /\ rc.lessons = "object" /\ rc.lesson[l].kind = "object"
                            THEN [rc.val.lessons[l] EXCEPT !.present = TRUE]
                            ELSE NoLesson],
             completedLessons |->
                 IF TypeOf(rc.completedLessons) = "number" THEN rc.val.completedLessons ELSE -1,
             totalLessons |->
                 IF TypeOf(rc.totalLessons) = "number" THEN rc.val.totalLessons ELSE -1]

FromRaw(raw) == [c \in CourseIds |-> FromRawCourse(raw.course[c])]

\* the keys of payload.courses
rawKeys(raw) ==
    IF raw.courses = "object"
    THEN {c \in CourseIds : raw.course[c].kind # "undefined"} ELSE {}

----------------------------------------------------------------------------
\* validateProgressData (progressManager, and its copy in the main process):
\* "true", "false", or "throws" where it reads a property of null

validateLesson(rl) ==
    IF TypeOf(rl.kind) # "object" THEN "false"
    ELSE IF rl.kind = "null" THEN "throws"
    ELSE IF rl.completed # "undefined" /\ TypeOf(rl.completed) # "boolean" THEN "false"
    ELSE IF rl.watchedDuration # "undefined" /\ TypeOf(rl.watchedDuration) # "number"
         THEN "false"
    ELSE IF rl.lastPosition # "undefined" /\ TypeOf(rl.lastPosition) # "number"
         THEN "false"
    ELSE "true"

\* the first result other than "true" in visiting order, else "true"
firstFailure(order, keys, res) ==
    LET bad == {i \in 1..Len(order) : order[i] \in keys /\ res[order[i]] # "true"}
    IN  IF bad = {} THEN "true"
        ELSE res[order[CHOOSE i \in bad : \A j \in bad : i <= j]]

validateLessons(rc) ==
    LET keys == IF rc.lessons = "object"
                THEN {l \in LessonIds : rc.lesson[l].kind # "undefined"} ELSE {}
        res == [l \in keys |-> validateLesson(rc.lesson[l])]
    IN  firstFailure(LessonOrder, keys, res)

validateCourse(rc) ==
    IF TypeOf(rc.kind) # "object" THEN "false"
    ELSE IF rc.kind = "null" THEN "throws"
    ELSE IF Truthy(rc.lessons) /\ TypeOf(rc.lessons) # "object" THEN "false"
    ELSE IF rc.totalLessons # "undefined" /\ TypeOf(rc.totalLessons) # "number"
         THEN "false"
    ELSE IF rc.completedLessons # "undefined" /\ TypeOf(rc.completedLessons) # "number"
         THEN "false"
    ELSE IF Truthy(rc.lessons) THEN validateLessons(rc)
    ELSE "true"

validateProgressData(raw) ==
    IF ~Truthy(raw.root) \/ TypeOf(raw.root) # "object" THEN "false"
    ELSE IF ~Truthy(raw.courses) \/ TypeOf(raw.courses) # "object" THEN "false"
    ELSE LET res == [c \in rawKeys(raw) |-> validateCourse(raw.course[c])]
         IN  firstFailure(CourseOrder, rawKeys(raw), res)

----------------------------------------------------------------------------
\* Loading: main-process handler, file-system service, progress manager

Max(a, b) == IF a >= b THEN a ELSE b

\* a progress file as the load-progress handler finds it
MissingFile == [kind |-> "missing", raw |-> EmptyRaw]
CorruptFile == [kind |-> "corrupt", raw |-> EmptyRaw]
JsonFile(raw) == [kind |-> "json", raw |-> raw]

\* what the storage collaborator does on one read
IoOutcomes == {"ok", "ioError", "ipcReject"}

ErrorResponse == [tag |-> "error", raw |-> EmptyRaw]
DataResponse(raw) == [tag |-> "data", raw |-> raw]
Rejection == [tag |-> "reject", raw |-> EmptyRaw]

\* ipcMain.handle('load-progress'): the value the invoke resolves to
loadProgressHandler(file, io) ==
    IF io = "ipcReject" THEN Rejection
    ELSE IF file.kind = "missing" THEN DataResponse(EmptyRaw)
    ELSE IF io = "ioError" THEN DataResponse(EmptyRaw)
    ELSE IF file.kind = "corrupt" THEN ErrorResponse
    ELSE DataResponse(file.raw)

Returned(raw) == [threw |-> FALSE, data |-> raw]
Raised == [threw |-> TRUE, data |-> EmptyRaw]

\* loadProgressData: its try/catch turns a rejected invoke into { courses: {} }
loadProgressData(response) ==
    IF response.tag = "reject" THEN Returned(EmptyRaw)
    ELSE IF response.tag = "error" THEN Returned(EmptyRaw)
    ELSE IF Truthy(response.raw.root) THEN Returned(response.raw)
    ELSE Returned(EmptyRaw)

\* a loadProgressWithFallback that accepts what it loaded without validating it
loadProgressUnvalidated(response) == loadProgressData(response)

\* loadProgressWithFallback: its try/catch covers the load and the validator
loadProgressWithFallback(response) ==
    LET r == loadProgressData(response)
        v == validateProgressData(r.data)
    IN  IF r.threw THEN Returned(EmptyRaw)
        ELSE IF v = "throws" THEN Returned(EmptyRaw)
        ELSE IF v = "false" THEN Returned(EmptyRaw)
        ELSE Returned(r.data)

\* state.courses = payload.courses, which drops the entries the payload lacks
replaceCourses(cs, keys, incoming) ==
    [c \in CourseIds |-> IF c \in keys THEN incoming[c] ELSE NoCourse]

\* state.courses = { ...state.courses, ...payload.courses }
spreadCourses(cs, keys, incoming) ==
    [c \in CourseIds |-> IF c \in keys THEN incoming[c] ELSE cs[c]]

----------------------------------------------------------------------------
\* mergeProgressData(existing, incoming) on store entries

laterStamp(inc, ex) ==
    IF inc # -1 /\ ex # -1 THEN (IF inc > ex THEN inc ELSE ex)
    ELSE IF inc # -1 THEN inc ELSE ex

earlierStamp(inc, ex) ==
    IF inc # -1 /\ ex # -1 THEN (IF inc < ex THEN inc ELSE ex)
    ELSE IF inc # -1 THEN inc ELSE ex

\* a field of the spread { ...existing, ...incoming }: incoming's when it has it
spreadNum(inc, ex) == IF inc # -1 THEN inc ELSE ex
spreadStr(inc, ex) == IF inc # Undefined THEN inc ELSE ex

\* the plain spread { ...existingLesson, ...incomingLesson }
mergeLessonSpread(ex, inc) == IF inc.present THEN inc ELSE ex

\* a merge that keeps the incoming completion flag
mergeLessonIncomingFlag(ex, inc) ==
    IF inc.present /\ ex.present
    THEN [inc EXCEPT !.watchedDuration = Max(inc.watchedDuration, ex.watchedDuration)]
    ELSE IF inc.present THEN inc ELSE ex

mergeLesson(ex, inc) ==
    IF inc.present /\ ex.present
    THEN [present |-> TRUE,
          completed |-> inc.completed \/ ex.completed,
          watchedDuration |-> Max(inc.watchedDuration, ex.watchedDuration),
          lastPosition |-> inc.lastPosition,
          lastWatched |-> spreadNum(inc.lastWatched, ex.lastWatched),
          completedAt |-> earlierStamp(inc.completedAt, ex.completedAt)]
    ELSE IF inc.present THEN inc ELSE ex

mergeCourse(ex, inc) ==
    IF ~ex.present THEN inc
    ELSE [present |-> TRUE,
          lastWatched |-> laterStamp(inc.lastWatched, ex.lastWatched),
          currentLesson |-> spreadStr(inc.currentLesson, ex.currentLesson),
          currentTime |-> spreadNum(inc.currentTime, ex.currentTime),
          hasLessons |-> TRUE,
          lessons |-> [l \in LessonIds |-> mergeLesson(ex.lessons[l], inc.lessons[l])],
          completedLessons |-> spreadNum(inc.completedLessons, ex.completedLessons),
          totalLessons |-> spreadNum(inc.totalLessons, ex.totalLessons)]

mergeProgressData(existing, incoming) ==
    [c \in CourseIds |->
        IF incoming[c].present THEN mergeCourse(existing[c], incoming[c])
        ELSE existing[c]]

----------------------------------------------------------------------------
\* Initial state

\* the progress file as save-progress leaves it: what parsing it gives back
NoFile == [written |-> FALSE, courses |-> NoCourses, version |-> ""]
FileOf(cs, ver) ==
    [written |-> TRUE, courses |-> FromRaw(ToRaw(cs, ver)), version |-> ToRaw(cs, ver).version]

NoOp == [op |-> "none", c |-> "", l |-> "", had |-> FALSE, undo |-> FALSE,
         readd |-> FALSE]
NoSave == [active |-> FALSE, snap |-> NoCourses, ver |-> "", attempt |-> 0,
           phase |-> "idle", waits |-> <<>>, log |-> <<>>, origin |-> ""]
NoneDone == [result |-> "none", waits |-> <<>>, log |-> <<>>]

SaveSlots == 1..MaxSaves

\* SettingsDialog: snackbarOpen, snackbarSeverity, snackbarMessage
NoSnackbar == [open |-> FALSE, severity |-> "success", message |-> ""]
Snackbar(severity, message) == [open |-> TRUE, severity |-> severity, message |-> message]

InitStore ==
    /\ courses = NoCourses
    /\ version = "1.0"
    /\ isLoading = FALSE
    /\ isSaving = FALSE
    /\ error = ""
    /\ isDirty = FALSE

InitRest ==
    /\ clock = 0
    /\ saves = [i \in SaveSlots |-> NoSave]
    /\ loadSt = "idle"
    /\ importSt = [phase |-> "idle", existing |-> NoCourses]
    /\ timeoutId = 0
    /\ pendingData = 0
    /\ pendingResolve = 0
    /\ pendingReject = 0
    /\ timers = {}
    /\ running = {}
    /\ promises = <<>>
    /\ thrown = FALSE
    /\ last = NoOp
    /\ lastDone = NoneDone
    /\ nOps = 0
    /\ nIo = 0
    /\ calls = <<>>
    /\ writes = <<>>
    /\ written = <<>>
    /\ arrival = <<>>
    /\ loadedCourses = <<>>
    /\ selectedCourseId = ""
    /\ courseFolders = <<>>
    /\ snackbar = NoSnackbar
    /\ exportSt = "idle"
    /\ output = <<>>

----------------------------------------------------------------------------
\* Dispatching a progress reducer.  A reducer that raises leaves the state as
\* it was (the draft is discarded) and the exception reaches the dispatcher.

\* the part of a dispatch that every reducer shares
Dispatched(name, c, l) ==
    /\ nOps < MaxOps
    /\ nOps' = nOps + 1
    /\ last' = [op |-> name, c |-> c, l |-> l,
                had |-> l \in LessonIds /\ hasRecord(courses, c, l),
                \* this dispatch follows a markLessonComplete that found the
                \* same lesson's record
                undo |-> /\ name = "markLessonIncomplete"
                         /\ last.op = "markLessonComplete"
                         /\ last.c = c /\ last.l = l /\ last.had,
                \* this dispatch initialises a course that was loaded again
                \* right after its folder had been removed
                readd |-> /\ name = "initializeCourseProgressFromCourse"
                          /\ output # <<>>
                          /\ output.op = "loadCourseFromFolder"
                          /\ output.result = "fulfilled"
                          /\ output.restored
                          /\ output.id = c]
    /\ UNCHANGED <<ioVars, debVars, libVars, dialogVars, lastDone, nIo>>

RaisedInReducer ==
    /\ thrown' = TRUE
    /\ UNCHANGED storeVars

Applied(cs, dirty) ==
    /\ thrown' = FALSE
    /\ courses' = cs
    /\ isDirty' = dirty
    /\ UNCHANGED <<version, isLoading, isSaving, error>>

updateLessonProgress(c, l, p) ==
    /\ Dispatched("updateLessonProgress", c, l)
    /\ \E now \in Now(clock) :
        /\ clock' = now
        /\ IF lessonsUndefined(courses, c) THEN RaisedInReducer
           ELSE Applied(updateLessonProgressCourses(courses, c, l, p, now), TRUE)

setCurrentTime(c, l, t) ==
    /\ Dispatched("setCurrentTime", c, l)
    /\ \E now \in Now(clock) :
        /\ clock' = now
        /\ IF lessonsUndefined(courses, c) THEN RaisedInReducer
           ELSE Applied(setCurrentTimeCourses(courses, c, l, t, now), TRUE)

markLessonComplete(c, l) ==
    /\ Dispatched("markLessonComplete", c, l)
    /\ \E now \in Now(clock) :
        /\ clock' = now
        /\ IF lessonsUndefined(courses, c) THEN RaisedInReducer
           ELSE IF hasRecord(courses, c, l)
           THEN Applied(markLessonCompleteCourses(courses, c, l, now), TRUE)
           ELSE Applied(courses, isDirty)

markLessonIncomplete(c, l) ==
    /\ Dispatched("markLessonIncomplete", c, l)
    /\ UNCHANGED clock
    /\ IF lessonsUndefined(courses, c) THEN RaisedInReducer
       ELSE IF hasRecord(courses, c, l)
       THEN Applied(markLessonIncompleteCourses(courses, c, l), TRUE)
       ELSE Applied(courses, isDirty)

RECURSIVE SumSeq(_)
SumSeq(q) == IF q = <<>> THEN 0 ELSE Head(q) + SumSeq(Tail(q))

\* the lesson counts of the sections of the courses that get loaded
SectionShapes == {<<>>, <<1>>, <<1, 1>>}

initializeCourseProgressFromCourse(c, sections) ==
    /\ Dispatched("initializeCourseProgressFromCourse", c, "")
    /\ \E now \in Now(clock) :
        /\ clock' = now
        /\ Applied(initializeCourseProgressFromCourseCourses(
                       courses, c, SumSeq(sections), now), isDirty)

\* the lesson counts passed to initializeCourseProgress
LessonCounts == {1, 2}

initializeCourseProgress(c, totalLessons) ==
    /\ Dispatched("initializeCourseProgress", c, "")
    /\ \E now \in Now(clock) :
        /\ clock' = now
        /\ Applied(initializeCourseProgressCourses(courses, c, totalLessons, now), isDirty)

clearCourseProgress(c) ==
    /\ Dispatched("clearCourseProgress", c, "")
    /\ UNCHANGED clock
    /\ Applied(clearCourseProgressCourses(courses, c), TRUE)

----------------------------------------------------------------------------
\* loadProgress (thunk and extraReducers)

LoadFailed == "Failed to load progress"

loadProgressPending ==
    /\ loadSt = "idle"
    /\ nIo < MaxIo
    /\ nIo' = nIo + 1
    /\ loadSt' = "pending"
    /\ isLoading' = TRUE
    /\ error' = ""
    /\ UNCHANGED <<courses, version, isSaving, isDirty, clock, disk, saves, importSt,
                   debVars, libVars, dialogVars, thrown, last, lastDone,
                   nOps>>

\* the thunk settles: the read of the file and the reducer for its outcome
loadProgressSettled(file, io) ==
    /\ loadSt = "pending"
    /\ loadSt' = "idle"
    /\ LET r == loadProgressWithFallback(loadProgressHandler(file, io))
       IN  IF r.threw
           THEN /\ isLoading' = FALSE
                /\ error' = LoadFailed
                /\ UNCHANGED <<courses, version, isDirty>>
           ELSE /\ isLoading' = FALSE
                /\ courses' = spreadCourses(courses, rawKeys(r.data), FromRaw(r.data))
                /\ version' = IF r.data.version # "" THEN r.data.version ELSE version
                /\ isDirty' = FALSE
                /\ UNCHANGED error
    /\ last' = [NoOp EXCEPT !.op = "loadProgress", !.c = file.kind, !.l = io]
    /\ thrown' = FALSE
    /\ UNCHANGED <<isSaving, clock, disk, saves, importSt,
                   debVars, libVars, dialogVars, lastDone, nOps, nIo>>

----------------------------------------------------------------------------
\* Selectors of the progress slice

\* selectCourseCompletionPercentage: (completedLessons / totalLessons) * 100
\* as the exact fraction num / den
selectCourseCompletionPercentage(cs, c) ==
    IF ~cs[c].present \/ cs[c].totalLessons = -1 \/ cs[c].totalLessons = 0
    THEN [num |-> 0, den |-> 1]
    ELSE [num |-> (IF cs[c].completedLessons = -1 THEN 0 ELSE cs[c].completedLessons) * 100,
          den |-> cs[c].totalLessons]

----------------------------------------------------------------------------
\* Progress files found on disk at start-up

FileLesson ==
    [present |-> TRUE, completed |-> TRUE, watchedDuration |-> 1,
     lastPosition |-> 1, lastWatched |-> 0, completedAt |-> 0]

FileCourse ==
    [present |-> TRUE, lastWatched |-> 0, currentLesson |-> "l1",
     currentTime |-> 1, hasLessons |-> TRUE,
     lessons |-> [NoLessons EXCEPT !["l1"] = FileLesson],
     completedLessons |-> 1, totalLessons |-> 2]

FileCourses == [NoCourses EXCEPT !["c1"] = FileCourse]

GoodRaw == ToRaw(FileCourses, "1.0")

\* a file saved when both lessons of the course had been completed
DoneCourses ==
    [NoCourses EXCEPT !["c1"] =
        [FileCourse EXCEPT !.lessons = [l \in LessonIds |-> FileLesson],
                           !.completedLessons = 2]]

DoneRaw == ToRaw(DoneCourses, "1.0")

\* { "courses": { "c1": {} } }
BareRaw ==
    [EmptyRaw EXCEPT !.course["c1"] = [NoRawCourse EXCEPT !.kind = "object"]]

InvalidRaws ==
    { [GoodRaw EXCEPT !.root = "null"],
      [GoodRaw EXCEPT !.courses = "undefined"],
      [GoodRaw EXCEPT !.course["c1"].kind = "null"],
      [GoodRaw EXCEPT !.course["c1"].totalLessons = "string"],
      [GoodRaw EXCEPT !.course["c1"].lesson["l1"].watchedDuration = "string"] }

InitDisks ==
    {MissingFile, CorruptFile, JsonFile(GoodRaw), JsonFile(DoneRaw), JsonFile(BareRaw)}
        \cup {JsonFile(r) : r \in InvalidRaws}

----------------------------------------------------------------------------
\* The progress store with its reducers and loadProgress.  Nothing here writes
\* the progress file, so the file each load finds is an input of the load.

InitProgress ==
    /\ InitStore
    /\ InitRest
    /\ disk = NoFile
    /\ input = <<>>

NextProgress ==
    \/ \E c \in CourseIds, l \in LessonIds, p \in Partials : updateLessonProgress(c, l, p)
    \/ \E c \in CourseIds, l \in LessonIds, t \in Times : setCurrentTime(c, l, t)
    \/ \E c \in CourseIds, l \in LessonIds : markLessonComplete(c, l)
    \/ \E c \in CourseIds, l \in LessonIds : markLessonIncomplete(c, l)
    \/ \E c \in CourseIds, q \in SectionShapes : initializeCourseProgressFromCourse(c, q)
    \/ \E c \in CourseIds : clearCourseProgress(c)
    \/ loadProgressPending
    \/ \E file \in InitDisks, io \in IoOutcomes : loadProgressSettled(file, io)

SpecProgress == InitProgress /\ [][NextProgress]_vars

----------------------------------------------------------------------------
\* saveProgress (thunk and extraReducers) over saveProgressWithRetry,
\* saveProgressData and the save-progress handler.
\*
\* Dispatching runs, in one step, the pending reducer and the payload creator
\* up to its first await: it reads courses and version and isDirty and hands
\* the snapshot to the first write attempt.  A write attempt and the delivery
\* of its response are one step.

maxRetries == 3
delays == <<1000, 2000, 4000>>

\* a backoff that reads the table one entry too far
retryDelayOffByOne(attempt) ==
    IF attempt + 2 <= Len(delays) THEN delays[attempt + 2] ELSE 4000

\* delays[attempt] || 4000
retryDelay(attempt) ==
    IF attempt + 1 <= Len(delays) THEN delays[attempt + 1] ELSE 4000

SaveFailed == "Failed to save progress after 3 attempts"

inFlight == {i \in SaveSlots : saves[i].active}
freeSlots == SaveSlots \ inFlight

\* saveProgress dispatched.  With nothing to save the payload creator returns
\* at once: pending, then fulfilled, before any other event.  Otherwise:
\* pending, and the first attempt is on its way with the snapshot.
saveProgressDispatched(cs, ver, dirty, origin) ==
    /\ error' = ""
    /\ IF ~dirty
       THEN /\ isSaving' = FALSE
            /\ isDirty' = FALSE
            /\ lastDone' = [result |-> "fulfilled", waits |-> <<>>, log |-> <<>>]
            /\ UNCHANGED saves
       ELSE /\ freeSlots # {}
            /\ isSaving' = TRUE
            /\ isDirty' = dirty
            /\ saves' = [saves EXCEPT ![CHOOSE i \in freeSlots : \A j \in freeSlots : i <= j] =
                            [active |-> TRUE, snap |-> cs, ver |-> ver, attempt |-> 0,
                             phase |-> "writing", waits |-> <<>>, log |-> <<>>,
                             origin |-> origin]]
            /\ UNCHANGED lastDone

\* VideoPlayer: the 5 s interval callback.  isDirtyRef and isSavingRef are
\* copied from the store by effects that run after every change of the flags
\* and before the next interval callback; they are read here as the flags.
autoSaveTick ==
    /\ isDirty /\ ~isSaving
    /\ saveProgressDispatched(courses, version, isDirty, "tick")
    /\ UNCHANGED <<courses, version, isLoading, clock, disk, loadSt, importSt,
                   debVars, libVars, dialogVars, thrown, last, nOps, nIo>>

\* isDirty after saveProgress.fulfilled
saveFulfilledDirty(t) == FALSE

Imported == "Progress imported and merged successfully!"

\* handleImportProgress resumes when the saveProgress it dispatched settles,
\* fulfilled or rejected, and reports the import
snackbarAfterSave(t) ==
    IF t.origin = "import" THEN Snackbar("success", Imported) ELSE snackbar

\* an attempt succeeds: the file is written, saveProgressWithRetry returns,
\* the thunk is fulfilled
saveAttemptSucceeds(i) ==
    /\ saves[i].active /\ saves[i].phase = "writing"
    /\ disk' = FileOf(saves[i].snap, saves[i].ver)
    /\ saves' = [saves EXCEPT ![i] = NoSave]
    /\ lastDone' = [result |-> "fulfilled", waits |-> saves[i].waits,
                    log |-> Append(saves[i].log, "ok")]
    /\ isSaving' = FALSE
    /\ isDirty' = saveFulfilledDirty(saves[i])
    /\ snackbar' = snackbarAfterSave(saves[i])
    /\ UNCHANGED <<courses, version, isLoading, error, clock, loadSt, importSt,
                   debVars, libVars, exportSt, thrown, last, nOps, nIo>>

\* the number of attempts saveProgressWithRetry makes before it gives up
attemptsAllowed == maxRetries

\* an attempt fails: wait and retry, or after the last attempt raise, and the
\* thunk is rejected
saveAttemptFails(i) ==
    /\ saves[i].active /\ saves[i].phase = "writing"
    /\ IF saves[i].attempt < attemptsAllowed - 1
       THEN /\ saves' = [saves EXCEPT
                           ![i].phase = "waiting",
                           ![i].log = Append(@, "fail"),
                           ![i].waits = Append(@, retryDelay(saves[i].attempt))]
            /\ UNCHANGED <<storeVars, lastDone, snackbar>>
       ELSE /\ saves' = [saves EXCEPT ![i] = NoSave]
            /\ snackbar' = snackbarAfterSave(saves[i])
            /\ lastDone' = [result |-> "rejected", waits |-> saves[i].waits,
                            log |-> Append(saves[i].log, "fail")]
            /\ isSaving' = FALSE
            /\ error' = SaveFailed
            /\ UNCHANGED <<courses, version, isLoading, isDirty>>
    /\ UNCHANGED <<clock, disk, loadSt, importSt, debVars, libVars, exportSt,
                   thrown, last, nOps, nIo>>

\* the backoff timer of a waiting save fires: the next attempt starts
saveRetryTimer(i) ==
    /\ saves[i].active /\ saves[i].phase = "waiting"
    /\ saves' = [saves EXCEPT ![i].phase = "writing", ![i].attempt = @ + 1]
    /\ UNCHANGED <<storeVars, clock, disk, loadSt, importSt,
                   debVars, libVars, dialogVars, histVars>>

----------------------------------------------------------------------------
\* importProgress (thunk, extraReducers) and handleImportProgress

\* an export made when the first lesson had been opened and not yet watched
StartedCourses ==
    [FileCourses EXCEPT !["c1"].lessons["l1"] = NewLessonAt(0),
                        !["c1"].completedLessons = 0]

StartedRaw == ToRaw(StartedCourses, "1.0")

ImportFiles == {GoodRaw, StartedRaw, [GoodRaw EXCEPT !.course["c1"].kind = "null"]}

importProgressPending ==
    /\ importSt.phase = "idle"
    /\ nIo < MaxIo
    /\ nIo' = nIo + 1
    /\ importSt' = [phase |-> "dialog", existing |-> courses]
    /\ isLoading' = TRUE
    /\ error' = ""
    /\ UNCHANGED <<courses, version, isSaving, isDirty, clock, disk, saves, loadSt,
                   debVars, libVars, dialogVars, thrown, last, lastDone, nOps>>

importProgressRejected(message) ==
    /\ importSt.phase = "dialog"
    /\ importSt' = [phase |-> "idle", existing |-> NoCourses]
    /\ isLoading' = FALSE
    /\ error' = message
    /\ snackbar' = IF message # "canceled" THEN Snackbar("error", message) ELSE snackbar
    /\ last' = [NoOp EXCEPT !.op = "importProgress.rejected"]
    /\ thrown' = FALSE
    /\ UNCHANGED <<courses, version, isSaving, isDirty, clock, disk, saves, loadSt,
                   debVars, libVars, exportSt, lastDone, nOps, nIo>>

\* the dialog returns a file the main process accepts: merge, fulfilled, and
\* the handler's dispatch of saveProgress
importProgressFulfilled(raw) ==
    /\ importSt.phase = "dialog"
    /\ validateProgressData(raw) = "true"
    /\ importSt' = [phase |-> "idle", existing |-> NoCourses]
    /\ LET merged == mergeProgressData(importSt.existing, FromRaw(raw))
           keys == {c \in CourseIds : merged[c].present}
           cs == spreadCourses(courses, keys, merged)
       IN  /\ courses' = cs
           /\ saveProgressDispatched(cs, version, TRUE, "import")
    /\ isLoading' = FALSE
    /\ last' = [NoOp EXCEPT !.op = "importProgress.fulfilled"]
    /\ thrown' = FALSE
    /\ UNCHANGED <<version, clock, disk, loadSt, debVars, libVars, dialogVars,
                   nOps, nIo>>

\* the dialog is dismissed, the file cannot be read, or the main process
\* finds it invalid
importProgressSettled ==
    \/ importProgressRejected("canceled")
    \/ importProgressRejected("Failed to import progress")
    \/ \E raw \in ImportFiles :
          IF validateProgressData(raw) = "true"
          THEN importProgressFulfilled(raw)
          ELSE importProgressRejected("Invalid progress data format")

----------------------------------------------------------------------------
\* exportProgress (thunk, extraReducers), handleExportProgress, the preload
\* bridge and the export-progress handler

DialogChoices == {"canceled", "chosen"}

\* the export-progress handler.  The bridge invokes it without the progress
\* data, so with a file chosen it writes JSON.stringify(undefined), which
\* fs.writeFile refuses.
exportProgressHandler(choice) ==
    IF choice = "canceled"
    THEN [canceled |-> TRUE, success |-> FALSE, error |-> ""]
    ELSE [canceled |-> FALSE, success |-> FALSE, error |-> "ERR_INVALID_ARG_TYPE"]

exportProgressPending ==
    /\ exportSt = "idle"
    /\ nIo < MaxIo
    /\ nIo' = nIo + 1
    /\ exportSt' = "dialog"
    /\ isLoading' = TRUE
    /\ error' = ""
    /\ UNCHANGED <<courses, version, isSaving, isDirty, clock, ioVars,
                   debVars, libVars, snackbar, thrown, last, lastDone, nOps>>

\* the dialog closes: the handler's result, the settling reducer and the
\* notification of handleExportProgress
exportProgressSettled(choice) ==
    /\ exportSt = "dialog"
    /\ exportSt' = "idle"
    /\ isLoading' = FALSE
    /\ LET result == exportProgressHandler(choice)
           message == IF result.canceled THEN "canceled" ELSE result.error
       IN  IF ~result.canceled /\ result.success
           THEN /\ snackbar' = Snackbar("success", "Progress exported successfully!")
                /\ last' = [NoOp EXCEPT !.op = "exportProgress.fulfilled"]
                /\ UNCHANGED error
           ELSE /\ error' = message
                /\ snackbar' = Snackbar("error", message)
                /\ last' = [NoOp EXCEPT !.op = "exportProgress.rejected", !.c = message]
    /\ thrown' = FALSE
    /\ UNCHANGED <<courses, version, isSaving, isDirty, clock, ioVars,
                   debVars, libVars, lastDone, nOps, nIo>>

----------------------------------------------------------------------------
\* The progress store with its save paths: the auto-save interval of the
\* video player and the save that follows an import

SaveCourses == {"c1"}
SaveLessons == {"l1"}
\* the update the video player sends on pause
Watched == Partial(FALSE, FALSE, TRUE, 1)

InitSave ==
    /\ InitStore
    /\ InitRest
    /\ disk = NoFile
    /\ input = <<>>

Mutation ==
    \/ \E c \in SaveCourses, l \in SaveLessons : updateLessonProgress(c, l, Watched)
    \/ \E c \in SaveCourses, l \in SaveLessons, t \in Times : setCurrentTime(c, l, t)
    \/ \E c \in SaveCourses, l \in SaveLessons : markLessonComplete(c, l)
    \/ \E c \in SaveCourses, l \in SaveLessons : markLessonIncomplete(c, l)
    \/ \E c \in SaveCourses : clearCourseProgress(c)

NextSave ==
    \/ Mutation
    \/ autoSaveTick
    \/ \E i \in SaveSlots : saveAttemptSucceeds(i)
    \/ \E i \in SaveSlots : saveAttemptFails(i)
    \/ \E i \in SaveSlots : saveRetryTimer(i)
    \/ importProgressPending
    \/ importProgressSettled

SpecSave == InitSave /\ [][NextSave]_vars

\* The auto-save path alone: mutations, the interval, the save's attempts
NextAutoSave ==
    \/ Mutation
    \/ autoSaveTick
    \/ \E i \in SaveSlots : saveAttemptSucceeds(i)
    \/ \E i \in SaveSlots : saveAttemptFails(i)
    \/ \E i \in SaveSlots : saveRetryTimer(i)

SpecAutoSave == InitSave /\ [][NextAutoSave]_vars

\* The interval keeps firing, every attempt and every backoff timer ends, and
\* the backing store does not refuse writes forever.
SpecAutoSaveFair ==
    /\ SpecAutoSave
    /\ WF_vars(autoSaveTick)
    /\ WF_vars(\E i \in SaveSlots : saveRetryTimer(i))
    /\ WF_vars(\E i \in SaveSlots : saveAttemptSucceeds(i) \/ saveAttemptFails(i))
    /\ SF_vars(\E i \in SaveSlots : saveAttemptSucceeds(i))

----------------------------------------------------------------------------
\* createDebouncedSave: one closure, its calls, its timers and the saves its
\* timer callbacks start.  saveProgressWithRetry runs as in saveProgress.

\* a timer that is never cancelled
clearTimeoutIgnored(ts, id) == ts

\* clearTimeout: the timer will not fire; nothing happens if it already has
clearTimeout(ts, id) == ts \ {id}

\* settling a promise that is already settled does nothing
settle(ps, k, outcome) ==
    IF k # 0 /\ ps[k] = "pending" THEN [ps EXCEPT ![k] = outcome] ELSE ps

\* the finally block of the timer callback
closureCleared ==
    /\ timeoutId' = 0
    /\ pendingData' = 0
    /\ pendingResolve' = 0
    /\ pendingReject' = 0

quiescent == timeoutId = 0 /\ timers = {} /\ running = {}

\* a call of the debounced function with a new snapshot
debouncedSave ==
    /\ Len(calls) < MaxCalls
    /\ LET k == Len(calls) + 1
           \* clearTimeout(timeoutId); pendingReject(cancelled)
           cancelled == IF timeoutId # 0 THEN settle(promises, pendingReject, "superseded")
                        ELSE promises
           live == IF timeoutId # 0 THEN clearTimeout(timers, timeoutId) ELSE timers
       IN  /\ calls' = Append(calls, k)
           /\ arrival' = Append(arrival,
                            IF quiescent THEN "idle"
                            ELSE IF timeoutId \in timers THEN "pending"
                            ELSE "busy")
           /\ promises' = Append(cancelled, "pending")
           /\ pendingData' = k
           /\ pendingResolve' = k
           /\ pendingReject' = k
           /\ timeoutId' = k
           /\ timers' = live \cup {k}
    /\ UNCHANGED <<storeVars, libVars, dialogVars, clock, ioVars, running, writes, written, histVars>>

\* the idle timer of call k fires and its callback runs up to its await
debounceTimerFires(k) ==
    /\ k \in timers
    /\ timers' = timers \ {k}
    /\ IF pendingData # 0
       THEN /\ running' = running \cup
                    {[id |-> k, data |-> pendingData, attempt |-> 0, phase |-> "writing"]}
            /\ writes' = Append(writes, pendingData)
            /\ UNCHANGED <<timeoutId, pendingData, pendingResolve, pendingReject>>
       ELSE /\ closureCleared
            /\ UNCHANGED <<running, writes>>
    /\ UNCHANGED <<storeVars, libVars, dialogVars, clock, ioVars, promises, calls, written, arrival, histVars>>

\* an attempt of a scheduled save succeeds: the callback resumes, resolves and
\* clears the closure
debouncedAttemptSucceeds(r) ==
    /\ r \in running /\ r.phase = "writing"
    /\ running' = running \ {r}
    /\ written' = Append(written, r.data)
    /\ promises' = settle(promises, pendingResolve, "resolved")
    /\ closureCleared
    /\ UNCHANGED <<storeVars, libVars, dialogVars, clock, ioVars, timers, calls, writes, arrival, histVars>>

\* an attempt fails: back off, or after the last one the callback rejects
debouncedAttemptFails(r) ==
    /\ r \in running /\ r.phase = "writing"
    /\ IF r.attempt < attemptsAllowed - 1
       THEN /\ running' = (running \ {r}) \cup {[r EXCEPT !.phase = "waiting"]}
            /\ UNCHANGED <<timeoutId, pendingData, pendingResolve, pendingReject,
                           promises>>
       ELSE /\ running' = running \ {r}
            /\ promises' = settle(promises, pendingReject, "failed")
            /\ closureCleared
    /\ UNCHANGED <<storeVars, libVars, dialogVars, clock, ioVars, timers, calls, writes, written, arrival,
                   histVars>>

debouncedRetryTimer(r) ==
    /\ r \in running /\ r.phase = "waiting"
    /\ running' = (running \ {r}) \cup
                     {[r EXCEPT !.phase = "writing", !.attempt = @ + 1]}
    /\ UNCHANGED <<storeVars, libVars, dialogVars, clock, ioVars, timeoutId, pendingData, pendingResolve,
                   pendingReject, timers, promises, calls, writes, written, arrival,
                   histVars>>

NextDebounce ==
    \/ debouncedSave
    \/ \E k \in timers : debounceTimerFires(k)
    \/ \E r \in running : debouncedAttemptSucceeds(r)
    \/ \E r \in running : debouncedAttemptFails(r)
    \/ \E r \in running : debouncedRetryTimer(r)

SpecDebounce == InitSave /\ [][NextDebounce]_vars

----------------------------------------------------------------------------
\* mergeProgressData applied to pairs of progress data

MergeDurations == {0, 1, 2}

MergeLessons ==
    {NoLesson} \cup
    { [present |-> TRUE, completed |-> d, watchedDuration |-> w, lastPosition |-> w,
       lastWatched |-> 0, completedAt |-> IF d THEN 0 ELSE -1] :
         d \in BOOLEAN, w \in MergeDurations }

\* entries for the first course: none, one without a lessons map, or one with
\* lesson records
MergeEntries ==
    {NoCourse, [NoCourse EXCEPT !.present = TRUE, !.lastWatched = 0]} \cup
    { [FileCourse EXCEPT !.lessons = [NoLessons EXCEPT !["l1"] = a, !["l2"] = b],
                         !.completedLessons = completedCount(
                                [NoLessons EXCEPT !["l1"] = a, !["l2"] = b])] :
         a \in MergeLessons, b \in {NoLesson, FileLesson} }

MergeData ==
    { [NoCourses EXCEPT !["c1"] = e, !["c2"] = f] :
         e \in MergeEntries, f \in {NoCourse, FileCourse} }

InitMerge ==
    /\ InitStore
    /\ InitRest
    /\ disk = NoFile
    /\ input \in MergeData \X MergeData

\* both orders of the merge of the two arguments
applyMerge ==
    /\ output = <<>>
    /\ input # <<>>
    /\ output' = [ab |-> mergeProgressData(input[1], input[2]),
                  ba |-> mergeProgressData(input[2], input[1])]
    /\ UNCHANGED <<storeVars, clock, ioVars, debVars, histVars, dialogVars,
                   loadedCourses, selectedCourseId, courseFolders, input>>

NextMerge == applyMerge

SpecMerge == InitMerge /\ [][NextMerge]_vars

----------------------------------------------------------------------------
\* validateProgressData applied to parsed payloads

RawLessonValues ==
    {NoRawLesson} \cup
    { [NoRawLesson EXCEPT !.kind = k] : k \in {"null", "array", "string"} } \cup
    { [kind |-> "object", completed |-> a, watchedDuration |-> b, lastPosition |-> c] :
         a \in {"undefined", "true", "false", "string"},
         b \in {"undefined", "zero", "number", "string"},
         c \in {"number", "string"} }

RawCourseValues ==
    {NoRawCourse} \cup
    { [NoRawCourse EXCEPT !.kind = k] : k \in {"null", "array", "string", "number"} } \cup
    { [NoRawCourse EXCEPT !.kind = "object", !.lessons = k,
                          !.totalLessons = t, !.completedLessons = d, !.val = FileCourse] :
         k \in {"undefined", "null", "empty", "array", "string"},
         t \in {"undefined", "number", "string"},
         d \in {"undefined", "number", "string"} } \cup
    { [NoRawCourse EXCEPT !.kind = "object", !.lessons = "object",
                          !.totalLessons = t, !.completedLessons = "number",
                          !.lesson["l1"] = rl, !.val = FileCourse] :
         t \in {"undefined", "number", "string"}, rl \in RawLessonValues }

RawPayloads ==
    { [EmptyRaw EXCEPT !.root = k, !.courses = "undefined"] :
         k \in {"null", "string", "array"} } \cup
    { [EmptyRaw EXCEPT !.courses = k] : k \in {"undefined", "null", "array", "string"} } \cup
    { [EmptyRaw EXCEPT !.course["c1"] = a, !.course["c2"] = b] :
         a \in RawCourseValues, b \in {NoRawCourse, GoodRaw.course["c1"]} }

InitValidate ==
    /\ InitStore
    /\ InitRest
    /\ disk = NoFile
    /\ input \in RawPayloads

applyValidate ==
    /\ output = <<>>
    /\ output' = [valid |-> validateProgressData(input)]
    /\ UNCHANGED <<storeVars, clock, ioVars, debVars, histVars, dialogVars,
                   loadedCourses, selectedCourseId, courseFolders, input>>

NextValidate == applyValidate

SpecValidate == InitValidate /\ [][NextValidate]_vars

----------------------------------------------------------------------------
\* courseLoader: a Course carries its sections as lists of lesson durations
\* (-1: the lesson has no duration); duration 0 and -1 (absent) are falsy,
\* createdAt -1 is absent.

\* lesson.duration || 0
durationOrZero(d) == IF d = -1 THEN 0 ELSE d

RECURSIVE sumDurations(_)
sumDurations(lessons) ==
    IF lessons = <<>> THEN 0
    ELSE durationOrZero(Head(lessons)) + sumDurations(Tail(lessons))

RECURSIVE calculateCourseDuration(_)
calculateCourseDuration(sections) ==
    IF sections = <<>> THEN 0
    ELSE sumDurations(Head(sections)) + calculateCourseDuration(Tail(sections))

RECURSIVE calculateTotalLessons(_)
calculateTotalLessons(sections) ==
    IF sections = <<>> THEN 0
    ELSE Len(Head(sections)) + calculateTotalLessons(Tail(sections))

\* an enrichment that stamps createdAt on every call
enrichAlwaysStamps(course, now) ==
    [course EXCEPT
        !.duration = IF @ = -1 \/ @ = 0 THEN calculateCourseDuration(course.sections) ELSE @,
        !.totalLessons = calculateTotalLessons(course.sections),
        !.createdAt = now]

enrichCourseMetadata(course, now) ==
    [course EXCEPT
        !.duration = IF @ = -1 \/ @ = 0 THEN calculateCourseDuration(course.sections) ELSE @,
        !.totalLessons = calculateTotalLessons(course.sections),
        !.createdAt = IF @ = -1 THEN now ELSE @]

LessonDurations == {0, 1, 2}

SectionLists ==
    {<<>>} \cup
    { <<<<a>>>> : a \in LessonDurations } \cup
    { <<<<a, b>>>> : a \in LessonDurations, b \in LessonDurations } \cup
    { <<<<a>>, <<b>>>> : a \in LessonDurations, b \in LessonDurations }

\* a course as parsed from course.json
CourseFile(id, sections, duration, createdAt) ==
    [id |-> id, folderPath |-> "", sections |-> sections, duration |-> duration,
     totalLessons |-> -1, createdAt |-> createdAt]

EnrichInputs ==
    { CourseFile("c1", q, d, t) :
         q \in SectionLists, d \in {-1, 0, 3}, t \in {-1, 0} }

InitEnrich ==
    /\ InitStore
    /\ InitRest
    /\ disk = NoFile
    /\ input \in EnrichInputs

\* enrichCourseMetadata applied once, and later applied to its own result
applyEnrich ==
    /\ output = <<>>
    /\ \E t1 \in Times, t2 \in Times :
        /\ t1 <= t2
        /\ clock' = t2
        /\ output' = [once |-> enrichCourseMetadata(input, t1),
                      twice |-> enrichCourseMetadata(enrichCourseMetadata(input, t1), t2),
                      at |-> <<t1, t2>>]
    /\ UNCHANGED <<storeVars, ioVars, debVars, histVars, dialogVars,
                   loadedCourses, selectedCourseId, courseFolders, input>>

NextEnrich == applyEnrich

SpecEnrich == InitEnrich /\ [][NextEnrich]_vars

----------------------------------------------------------------------------
\* The courses slice.  The repository holds two coursesSlice modules with the
\* same exports: the one bundled in src/store/index.ts ("store") and
\* src/renderer/store/slices/coursesSlice.ts ("renderer").  Which of them
\* backs the store is fixed when the application is built; input.slice names
\* it.  A thunk's pending reducer, its reads of the folders and its settling
\* reducer are one step; what each folder holds when it is read is an input.

FolderPaths == {"f1", "f2", "f3"}
Slices == {"store", "renderer"}

\* what loadCourseData finds in a folder: no valid course.json, or a course
FolderContents == {"invalid"} \cup CourseIds

\* the folder lists passed to loadCoursesFromFolders: distinct paths
FolderOrder == <<"f1", "f2", "f3">>
PathLists ==
    { SelectSeq(FolderOrder, LAMBDA f : f \in chosen) : chosen \in SUBSET FolderPaths }

\* course.json as the load-course handler finds it: unreadable (no file, or
\* not JSON), or an object whose id is a string or not, whose sections are an
\* array or not, and which may declare a totalLessons of its own (title is a
\* string throughout)
Manifest(readable, idIsString, id, sectionsIsArray, sections, totalLessons) ==
    [readable |-> readable, idIsString |-> idIsString, id |-> id,
     sectionsIsArray |-> sectionsIsArray, sections |-> sections,
     totalLessons |-> totalLessons]

Unreadable == Manifest(FALSE, FALSE, "", FALSE, <<>>, -1)

\* the manifest of a folder of the library: unreadable, or the course with
\* the id, one section and one lesson
manifestFor(content) ==
    IF content = "invalid" THEN Unreadable
    ELSE Manifest(TRUE, TRUE, content, TRUE, <<<<1>>>>, -1)

\* the load-course handler: the parsed object, or { success: false }
loadCourseHandler(m) ==
    IF ~m.readable THEN [success |-> FALSE, data |-> Unreadable]
    ELSE IF ~m.idIsString \/ ~m.sectionsIsArray
         THEN [success |-> FALSE, data |-> Unreadable]
    ELSE [success |-> TRUE, data |-> m]

\* loadCourseData: raises on an error response and on a response that is not
\* a course
loadCourseData(response) ==
    IF ~response.success THEN [threw |-> TRUE, course |-> Unreadable]
    ELSE IF ~response.data.idIsString \/ ~response.data.sectionsIsArray
         THEN [threw |-> TRUE, course |-> Unreadable]
    ELSE [threw |-> FALSE, course |-> response.data]

\* the folder yields a course
loads(m) == ~loadCourseData(loadCourseHandler(m)).threw

\* { ...course, folderPath, createdAt: new Date().toISOString() }, enriched by
\* the renderer slice
courseWithPath(slice, path, m, now) ==
    LET c == [CourseFile(m.id, m.sections, -1, -1) EXCEPT
                 !.folderPath = path, !.createdAt = now,
                 !.totalLessons = m.totalLessons]
    IN  IF slice = "renderer" THEN enrichCourseMetadata(c, now) ELSE c

\* the loop over folderPaths: the courses of the folders that load, in order
\* (manifests[i] is what the i-th folder holds)
RECURSIVE loadedInOrder(_, _, _, _)
loadedInOrder(slice, paths, manifests, now) ==
    IF paths = <<>> THEN <<>>
    ELSE LET rest == loadedInOrder(slice, Tail(paths), Tail(manifests), now)
         IN  IF ~loads(Head(manifests)) THEN rest
             ELSE <<courseWithPath(slice, Head(paths), Head(manifests), now)>> \o rest

\* Array.from(courseMap.values()) after courseMap.set(course.id, course) for
\* each course: one course per id, at the place of the id's first course,
\* holding the id's last course
dedupeById(list) ==
    LET firsts == {i \in 1..Len(list) : \A j \in 1..(i - 1) : list[j].id # list[i].id}
        lastOf(i) == CHOOSE j \in 1..Len(list) :
                        /\ list[j].id = list[i].id
                        /\ \A k \in (j + 1)..Len(list) : list[k].id # list[i].id
        kept == [i \in 1..Len(list) |-> list[lastOf(i)]]
    IN  SelectSeq([i \in 1..Len(list) |-> [at |-> i, course |-> kept[i]]],
                  LAMBDA e : e.at \in firsts)

coursesOf(entries) == [i \in 1..Len(entries) |-> entries[i].course]

\* the payload of loadCoursesFromFolders
loadCoursesFromFoldersPayload(slice, paths, manifests, now) ==
    LET all == loadedInOrder(slice, paths, manifests, now)
    IN  IF slice = "store" THEN coursesOf(dedupeById(all)) ELSE all

hasCourse(list, id) == \E i \in 1..Len(list) : list[i].id = id

\* courses.find(course => course.id === id): the index, 0 when there is none
findCourse(list, id) ==
    IF hasCourse(list, id)
    THEN CHOOSE i \in 1..Len(list) :
            list[i].id = id /\ \A j \in 1..(i - 1) : list[j].id # id
    ELSE 0

\* output records the reducer or thunk applied last and its result; for
\* removeCourseFolder also the ids of the courses it removed, and for a
\* fulfilled loadCourseFromFolder whether it brings back a course that the
\* reducer applied just before it removed
libFrame == UNCHANGED <<storeVars, clock, ioVars, debVars, histVars, dialogVars, input>>

selectCourse(id) ==
    /\ selectedCourseId' = id
    /\ output' = [op |-> "selectCourse", result |-> "applied"]
    /\ UNCHANGED <<loadedCourses, courseFolders>>
    /\ libFrame

addCourseFolder(path) ==
    /\ courseFolders' = IF \E i \in 1..Len(courseFolders) : courseFolders[i] = path
                        THEN courseFolders ELSE Append(courseFolders, path)
    /\ output' = [op |-> "addCourseFolder", result |-> "applied"]
    /\ UNCHANGED <<loadedCourses, selectedCourseId>>
    /\ libFrame

\* the selection after removeCourseFolder
selectionAfterRemoval(slice, list, selected, path) ==
    IF slice = "store" /\ selected # "" /\ findCourse(list, selected) # 0
       /\ list[findCourse(list, selected)].folderPath = path
    THEN "" ELSE selected

removeCourseFolder(path) ==
    /\ selectedCourseId' =
          selectionAfterRemoval(input.slice, loadedCourses, selectedCourseId, path)
    /\ courseFolders' = SelectSeq(courseFolders, LAMBDA q : q # path)
    /\ loadedCourses' = SelectSeq(loadedCourses, LAMBDA c : c.folderPath # path)
    /\ output' = [op |-> "removeCourseFolder", result |-> "applied",
                  removed |-> {loadedCourses[i].id :
                                  i \in {j \in 1..Len(loadedCourses) :
                                            loadedCourses[j].folderPath = path}}]
    /\ libFrame

removeCourse(id) ==
    /\ loadedCourses' = SelectSeq(loadedCourses, LAMBDA c : c.id # id)
    /\ selectedCourseId' = IF selectedCourseId = id THEN "" ELSE selectedCourseId
    /\ output' = [op |-> "removeCourse", result |-> "applied"]
    /\ UNCHANGED courseFolders
    /\ libFrame

\* loadCourseFromFolder: the folder loads and its course replaces the loaded
\* course of the same id or is appended; or the thunk is rejected
loadCourseFromManifest(path, m) ==
    /\ IF ~loads(m)
       THEN /\ output' = [op |-> "loadCourseFromFolder", result |-> "rejected"]
            /\ UNCHANGED loadedCourses
       ELSE LET c == courseWithPath(input.slice, path, m, clock)
                at == findCourse(loadedCourses, m.id)
            IN  /\ loadedCourses' = IF at # 0 THEN [loadedCourses EXCEPT ![at] = c]
                                    ELSE Append(loadedCourses, c)
                /\ output' = [op |-> "loadCourseFromFolder", result |-> "fulfilled",
                              id |-> m.id,
                              restored |-> /\ output # <<>>
                                           /\ output.op = "removeCourseFolder"
                                           /\ m.id \in output.removed]
    /\ UNCHANGED <<selectedCourseId, courseFolders>>
    /\ libFrame

\* the folder holds no course, or the well-formed course with the id
loadCourseFromFolder(path, content) == loadCourseFromManifest(path, manifestFor(content))

loadCoursesFromManifests(paths, manifests) ==
    /\ LET payload == loadCoursesFromFoldersPayload(input.slice, paths, manifests, clock)
       IN  /\ loadedCourses' = payload
           /\ selectedCourseId' =
                 IF input.slice = "store" /\ selectedCourseId # ""
                    /\ ~hasCourse(payload, selectedCourseId)
                 THEN "" ELSE selectedCourseId
    /\ output' = [op |-> "loadCoursesFromFolders", result |-> "fulfilled"]
    /\ UNCHANGED courseFolders
    /\ libFrame

loadCoursesFromFolders(paths, contents) ==
    loadCoursesFromManifests(paths, [i \in 1..Len(paths) |-> manifestFor(contents[i])])

InitCourses ==
    /\ InitStore
    /\ InitRest
    /\ disk = NoFile
    /\ input \in {[slice |-> x] : x \in Slices}

NextCourses ==
    \/ \E id \in CourseIds : selectCourse(id)
    \/ \E path \in FolderPaths : addCourseFolder(path)
    \/ \E path \in FolderPaths : removeCourseFolder(path)
    \/ \E id \in CourseIds : removeCourse(id)
    \/ \E path \in FolderPaths, content \in FolderContents :
          loadCourseFromFolder(path, content)
    \/ \E paths \in PathLists :
          \E contents \in [1..Len(paths) -> FolderContents] :
              loadCoursesFromFolders(paths, contents)

SpecCourses == InitCourses /\ [][NextCourses]_vars

----------------------------------------------------------------------------
\* Loading course folders whose course.json may be anything: the two load
\* thunks over manifests of every shape, and the second dispatch of
\* CoursesPage.handleAddCourse, initializeCourseProgressFromCourse(payload),
\* for a course that has been loaded.

ManifestIds == {"", "c1"}
ManifestSections == {<<>>, <<<<1>>>>, <<<<1>>, <<1, 1>>>>}
\* totalLessons as course.json declares it: absent, or a number
DeclaredTotals == {-1, 5}

Manifests ==
    {Unreadable}
        \cup { Manifest(TRUE, FALSE, "", TRUE, q, -1) : q \in ManifestSections }
        \cup { Manifest(TRUE, TRUE, id, FALSE, <<>>, -1) : id \in ManifestIds }
        \cup { Manifest(TRUE, TRUE, id, TRUE, q, n) :
                  id \in ManifestIds, q \in ManifestSections, n \in DeclaredTotals }

\* the manifests found when a list of folders is loaded
ListedManifests ==
    { Unreadable,
      Manifest(TRUE, FALSE, "", TRUE, <<<<1>>>>, -1),
      Manifest(TRUE, TRUE, "", TRUE, <<<<1>>>>, -1),
      Manifest(TRUE, TRUE, "c1", TRUE, <<>>, -1),
      Manifest(TRUE, TRUE, "c1", TRUE, <<<<1>>, <<1, 1>>>>, 5) }

ManifestFolders == <<"f1", "f2">>

\* section.lessons.length of each section
sectionShape(sections) == [i \in 1..Len(sections) |-> Len(sections[i])]

\* handleAddCourse goes on after loadCourseFromFolder is fulfilled
handleAddCourseInitialises(i) ==
    /\ i \in 1..Len(loadedCourses)
    /\ loadedCourses[i].id \in CourseIds
    /\ output.op = "loadCourseFromFolder"
    /\ output.result = "fulfilled"
    /\ output.id = loadedCourses[i].id
    /\ initializeCourseProgressFromCourse(loadedCourses[i].id,
                                          sectionShape(loadedCourses[i].sections))

InitManifest ==
    /\ InitStore
    /\ InitRest
    /\ disk = NoFile
    /\ input \in {[slice |-> x] : x \in Slices}

NextManifest ==
    \/ \E m \in Manifests : loadCourseFromManifest(ManifestFolders[1], m)
    \/ \E ms \in [1..Len(ManifestFolders) -> ListedManifests] :
          loadCoursesFromManifests(ManifestFolders, ms)
    \/ \E i \in 1..Len(loadedCourses) : handleAddCourseInitialises(i)

SpecManifest == InitManifest /\ [][NextManifest]_vars

----------------------------------------------------------------------------
\* The progress store together with the course library: the reducers of the
\* progress slice, loadProgress, the import and export of the settings
\* dialog with the save an import dispatches, and the loading and removal of
\* a course.  CoursesPage adds a course by loadCourseFromFolder followed by
\* initializeCourseProgressFromCourse.

AppFiles == {MissingFile, JsonFile(GoodRaw), JsonFile(BareRaw)}
AppFolders == {"f1"}
AppContents == {"invalid", "c1"}

InitApp ==
    /\ InitStore
    /\ InitRest
    /\ disk = NoFile
    /\ input \in {[slice |-> x] : x \in Slices}

NextApp ==
    \/ Mutation
    \/ \E c \in SaveCourses, n \in LessonCounts : initializeCourseProgress(c, n)
    \/ \E c \in SaveCourses, q \in SectionShapes : initializeCourseProgressFromCourse(c, q)
    \/ loadProgressPending
    \/ \E file \in AppFiles, io \in IoOutcomes : loadProgressSettled(file, io)
    \/ importProgressPending
    \/ importProgressSettled
    \/ exportProgressPending
    \/ \E choice \in DialogChoices : exportProgressSettled(choice)
    \/ \E i \in SaveSlots : saveAttemptSucceeds(i)
    \/ \E i \in SaveSlots : saveAttemptFails(i)
    \/ \E i \in SaveSlots : saveRetryTimer(i)
    \/ \E id \in SaveCourses : removeCourse(id)
    \/ \E path \in AppFolders : removeCourseFolder(path)
    \/ \E path \in AppFolders, content \in AppContents : loadCourseFromFolder(path, content)

SpecApp == InitApp /\ [][NextApp]_vars

----------------------------------------------------------------------------
\* selectLastWatchedCourse over Object.entries(courses): the entries in the
\* insertion order of their keys, each an id with its lastWatched (-1 where the
\* entry has none)

\* new Date(a) > new Date(b): false when either date is invalid
laterDate(a, b) == a # -1 /\ b # -1 /\ a > b

NoEntry == [courseId |-> "", lastWatched |-> -1]

\* entries.reduce((latest, entry) => ..., null)
RECURSIVE reduceLatest(_, _)
reduceLatest(latest, entries) ==
    IF entries = <<>> THEN latest
    ELSE reduceLatest(IF latest = NoEntry
                         \/ laterDate(Head(entries).lastWatched, latest.lastWatched)
                      THEN Head(entries) ELSE latest,
                      Tail(entries))

\* the course id, "" for null
selectLastWatchedCourse(entries) ==
    IF Len(entries) = 0 THEN "" ELSE reduceLatest(NoEntry, entries).courseId

EntryIds == {"c1", "c2", "c3"}
EntryStamps == {-1, 0, 1}
MaxEntries == 3

\* lists of entries with distinct ids
EntryLists ==
    UNION { { q \in [1..n -> [courseId : EntryIds, lastWatched : EntryStamps]] :
                \A i \in 1..n, j \in 1..n : q[i].courseId = q[j].courseId => i = j }
            : n \in 0..MaxEntries }

InitLastWatched ==
    /\ InitStore
    /\ InitRest
    /\ disk = NoFile
    /\ input \in EntryLists

applyLastWatched ==
    /\ output = <<>>
    /\ output' = [courseId |-> selectLastWatchedCourse(input)]
    /\ UNCHANGED <<storeVars, clock, ioVars, debVars, histVars, dialogVars,
                   loadedCourses, selectedCourseId, courseFolders, input>>

NextLastWatched == applyLastWatched

SpecLastWatched == InitLastWatched /\ [][NextLastWatched]_vars

----------------------------------------------------------------------------
\* Claims about the progress store and loadProgress (SpecProgress)

\* a read that fails: the collaborator fails, the file is missing or is not
\* JSON, or the payload is structurally invalid
FailedRead(file, io) ==
    io # "ok" \/ file.kind # "json" \/ file.raw \in InvalidRaws

C9_NoRecordIsNoOp ==
    [][\A c \in CourseIds, l \in LessonIds :
          (markLessonComplete(c, l) /\ ~hasRecord(courses, c, l)) =>
              (UNCHANGED storeVars /\ ~thrown')]_vars

\* C10: after markLessonComplete and then markLessonIncomplete on a lesson
\* whose record exists, the lesson is not completed, has no completedAt, and
\* the cached completedLessons is the number of completed lesson records.
C10_CompleteThenIncomplete ==
    last.undo =>
        LET e == courses[last.c]
        IN  /\ ~thrown
            /\ e.lessons[last.l].present
            /\ ~e.lessons[last.l].completed
            /\ e.lessons[last.l].completedAt = -1
            /\ e.completedLessons = completedCount(e.lessons)

\* the pair has been applied to a lesson whose record exists
C10_Witness ==
    /\ last.undo
    /\ ~thrown
    /\ courses[last.c].lessons[last.l].present

----------------------------------------------------------------------------
\* Claims about saving (SpecAutoSave, SpecAutoSaveFair, SpecSave)

\* C1: whenever isDirty is false and no save is in flight, the courses last
\* written to the progress file are the courses in memory.
C1_CleanMeansPersisted ==
    (~isDirty /\ inFlight = {}) => disk.courses = courses

\* C4: at most one saveProgress write sequence is in flight, and isSaving is
\* true exactly while one is.
C4_OneSaveInFlight ==
    /\ Cardinality(inFlight) <= 1
    /\ isSaving <=> inFlight # {}

\* C5: when the last attempt of a save fails, the store is left with
\* isSaving = false, the failure as its error, isDirty = true and the courses
\* as they were.  (Every save that reaches an attempt was dispatched dirty.)
C5_FailedSaveStaysDirty ==
    [][\A i \in SaveSlots :
          (saveAttemptFails(i) /\ saves[i].attempt = attemptsAllowed - 1) =>
              /\ ~isSaving'
              /\ error' = SaveFailed
              /\ isDirty'
              /\ courses' = courses]_vars

\* the attempts a save has made, in flight or settled, follow the retry policy:
\* at most 3, none after a success, and the waits before the second and third
\* are 1000 ms and 2000 ms
PolicyFollowed(log, waits) ==
    /\ Len(log) <= 3
    /\ \A k \in 1..Len(log) : log[k] = "ok" => k = Len(log)
    /\ \A k \in 1..Len(waits) : waits[k] = <<1000, 2000>>[k]

\* C6: a save makes at most 3 attempts, one at a time, and none after a
\* success; a save whose first two attempts fail and whose third succeeds ends
\* fulfilled having waited 1000 ms and then 2000 ms; and the success of a
\* save's attempt leaves isDirty = false.
C6_RetryPolicy ==
    /\ [](/\ \A i \in SaveSlots :
               saves[i].active =>
                   /\ PolicyFollowed(saves[i].log, saves[i].waits)
                   /\ saves[i].attempt = Len(saves[i].log) - (IF saves[i].phase = "waiting" THEN 1 ELSE 0)
                   /\ Len(saves[i].waits) = saves[i].attempt + (IF saves[i].phase = "waiting" THEN 1 ELSE 0)
          /\ PolicyFollowed(lastDone.log, lastDone.waits)
          /\ lastDone.log = <<"fail", "fail", "ok">> =>
                 (lastDone.result = "fulfilled" /\ lastDone.waits = <<1000, 2000>>)
          /\ lastDone.result = "rejected" => lastDone.log = <<"fail", "fail", "fail">>)
    /\ [][\A i \in SaveSlots : saveAttemptSucceeds(i) => ~isDirty']_vars

\* a save has succeeded on its third attempt and left the store clean
C6_Witness ==
    /\ lastDone.log = <<"fail", "fail", "ok">>
    /\ lastDone.result = "fulfilled"
    /\ ~isDirty
    /\ disk.written

\* C7: with mutations over, eventually and from then on isDirty is false and
\* the progress file holds the courses in memory.
C7_EventuallyPersisted ==
    <>[](~isDirty /\ disk.courses = courses)

----------------------------------------------------------------------------
\* Claims about the debounced save (SpecDebounce)

\* C2: a call's promise is resolved only when that call's snapshot has been
\* written.
C2_ResolvedMeansWritten ==
    \A k \in 1..Len(promises) :
        promises[k] = "resolved" => \E j \in 1..Len(written) : written[j] = k

\* the first call of the burst the last call belongs to: the latest call that
\* did not arrive while its predecessor's timer was pending
burstStart ==
    LET n == Len(calls)
        starts == {k \in 1..n : arrival[k] # "pending"}
    IN  CHOOSE k \in starts : \A j \in starts : j <= k

\* the calls so far end in a burst of two or more: a call that found the
\* scheduler idle, and every later call arriving before its predecessor's
\* timer fired
inBurst ==
    /\ Len(calls) >= 2
    /\ burstStart < Len(calls)
    /\ arrival[burstStart] = "idle"

----------------------------------------------------------------------------
\* Claims about the selectors (SpecProgress)

\* 0 <= p <= 100 for a fraction p
InPercentRange(p) ==
    IF p.den > 0 THEN 0 <= p.num /\ p.num <= 100 * p.den
    ELSE p.num <= 0 /\ p.num >= 100 * p.den

\* C11: for every course id the completion percentage lies in [0, 100], and
\* is 0 when the course has no entry or its totalLessons is 0 or absent.
C11_PercentageBounded ==
    \A c \in CourseIds :
        LET p == selectCourseCompletionPercentage(courses, c)
        IN  /\ InPercentRange(p)
            /\ (~courses[c].present \/ courses[c].totalLessons \in {-1, 0}) => p.num = 0

----------------------------------------------------------------------------
\* Claims about mergeProgressData (SpecMerge)

\* a lesson that both arguments hold in the same course
inBoth(c, l) ==
    /\ input[1][c].present /\ input[1][c].lessons[l].present
    /\ input[2][c].present /\ input[2][c].lessons[l].present

\* C12: for a lesson present in the same course on both sides, the merge in
\* either order gives it the same watchedDuration, the larger of the two.
C12_MergeDurationCommutes ==
    output # <<>> =>
        \A c \in CourseIds, l \in LessonIds :
            inBoth(c, l) =>
                LET a == input[1][c].lessons[l].watchedDuration
                    b == input[2][c].lessons[l].watchedDuration
                    m == IF a >= b THEN a ELSE b
                IN  /\ output.ab[c].lessons[l].watchedDuration = m
                    /\ output.ba[c].lessons[l].watchedDuration = m

\* merged: a lesson on both sides whose existing duration is the larger one
C12_Witness ==
    /\ output # <<>>
    /\ inBoth("c1", "l1")
    /\ input[1]["c1"].lessons["l1"].watchedDuration = 2
    /\ input[2]["c1"].lessons["l1"].watchedDuration = 1
    /\ output.ab["c1"].lessons["l1"].watchedDuration = 2

\* the lesson is recorded as completed in d
completedIn(d, c, l) ==
    d[c].present /\ d[c].lessons[l].present /\ d[c].lessons[l].completed

\* C13: a lesson completed in the existing or in the incoming data is
\* completed in mergeProgressData(existing, incoming), whether one side or
\* both hold the lesson.
C13_MergeKeepsCompleted ==
    output # <<>> =>
        \A c \in CourseIds, l \in LessonIds :
            (completedIn(input[1], c, l) \/ completedIn(input[2], c, l)) =>
                completedIn(output.ab, c, l)

\* merged: completed in the existing data, present and not completed in the
\* incoming data
C13_Witness ==
    /\ output # <<>>
    /\ completedIn(input[1], "c1", "l1")
    /\ inBoth("c1", "l1")
    /\ ~completedIn(input[2], "c1", "l1")
    /\ completedIn(output.ab, "c1", "l1")

----------------------------------------------------------------------------
\* Claims about validateProgressData (SpecValidate)

IsNumeric(k) == k \in {"zero", "number"}
IsRecord(k) == k = "object"

\* a lesson value that is not a record, or has a completed that is not a
\* boolean, or a watchedDuration or lastPosition that is not a number
BadLesson(rl) ==
    /\ rl.kind # "undefined"
    /\ \/ ~IsRecord(rl.kind)
       \/ rl.completed \notin {"undefined", "true", "false"}
       \/ rl.watchedDuration # "undefined" /\ ~IsNumeric(rl.watchedDuration)
       \/ rl.lastPosition # "undefined" /\ ~IsNumeric(rl.lastPosition)

\* a course value that is not a record, or has lessons that are not a record,
\* a count that is not a number, or a bad lesson
BadCourse(rc) ==
    /\ rc.kind # "undefined"
    /\ \/ ~IsRecord(rc.kind)
       \/ rc.lessons # "undefined" /\ ~IsRecord(rc.lessons)
       \/ rc.totalLessons # "undefined" /\ ~IsNumeric(rc.totalLessons)
       \/ rc.completedLessons # "undefined" /\ ~IsNumeric(rc.completedLessons)
       \/ \E l \in LessonIds : BadLesson(rc.lesson[l])

Defective(raw) ==
    \/ ~IsRecord(raw.root)
    \/ ~IsRecord(raw.courses)
    \/ \E c \in CourseIds : BadCourse(raw.course[c])

\* C14: validateProgressData answers true or false; it answers false for
\* every payload with a structural defect and true for { courses: {} }.
C14_ValidationFailsClosed ==
    output # <<>> =>
        /\ output.valid \in {"true", "false"}
        /\ Defective(input) => output.valid = "false"
        /\ input = EmptyRaw => output.valid = "true"

----------------------------------------------------------------------------
\* Claims about enrichCourseMetadata (SpecEnrich)

\* C20: enriching an enriched course changes nothing: duration, totalLessons,
\* createdAt and every other field stay as the first enrichment left them.
C20_EnrichIdempotent ==
    output # <<>> => output.twice = output.once

\* enriched twice at different times: a course without createdAt whose lesson
\* durations sum to 0
C20_Witness ==
    /\ output # <<>>
    /\ input.createdAt = -1
    /\ input.duration = -1
    /\ input.sections # <<>>
    /\ calculateCourseDuration(input.sections) = 0
    /\ output.at = <<0, 1>>
    /\ output.once.createdAt = 0
    /\ output.once.duration = 0

----------------------------------------------------------------------------
\* Claims about the courses slice (SpecCourses)

\* the i-th folder of the list is the last one that holds its course id
lastWithId(contents, i) ==
    /\ contents[i] # "invalid"
    /\ \A j \in (i + 1)..Len(contents) : contents[j] # contents[i]

\* what loadCoursesFromFolders has to leave in the store for the folders
\* paths holding contents: the thunk is fulfilled, the loaded courses are those
\* of the folders that loaded, no two share an id, and of two folders with the
\* same id the later one is kept
LoadedExactly(paths, contents) ==
    /\ output'.result = "fulfilled"
    /\ {loadedCourses'[k].id : k \in 1..Len(loadedCourses')} =
          {contents[i] : i \in {j \in 1..Len(paths) : contents[j] # "invalid"}}
    /\ \A k \in 1..Len(loadedCourses') :
          \E i \in 1..Len(paths) :
              /\ lastWithId(contents, i)
              /\ loadedCourses'[k].id = contents[i]
              /\ loadedCourses'[k].folderPath = paths[i]
    /\ \A k \in 1..Len(loadedCourses'), m \in 1..Len(loadedCourses') :
          loadedCourses'[k].id = loadedCourses'[m].id => k = m

\* C15: loadCoursesFromFolders over a list of folders, some of which fail to
\* load, is fulfilled and leaves exactly the courses of the folders that
\* loaded, one per id, the later folder's course for an id found twice.
C15_LoadManyDeduplicates ==
    [][\A paths \in PathLists :
          \A contents \in [1..Len(paths) -> FolderContents] :
              loadCoursesFromFolders(paths, contents) => LoadedExactly(paths, contents)]_vars

\* the selected course is loaded from the folder path and from no other folder
selectedBelongsTo(path) ==
    /\ selectedCourseId # ""
    /\ \E i \in 1..Len(loadedCourses) :
          loadedCourses[i].id = selectedCourseId /\ loadedCourses[i].folderPath = path
    /\ \A i \in 1..Len(loadedCourses) :
          loadedCourses[i].id = selectedCourseId => loadedCourses[i].folderPath = path

\* the selected course, if any, is loaded from other folders only
selectedElsewhere(path) ==
    \A i \in 1..Len(loadedCourses) :
        loadedCourses[i].id = selectedCourseId => loadedCourses[i].folderPath # path

\* C16: removeCourseFolder(p) removes p from the folders and exactly the
\* courses loaded from p, keeps the rest in place, clears the selection when
\* the selected course was loaded from p and keeps it otherwise.
C16_RemoveFolderClearsSelection ==
    [][\A path \in FolderPaths :
          removeCourseFolder(path) =>
              /\ courseFolders' = SelectSeq(courseFolders, LAMBDA q : q # path)
              /\ loadedCourses' = SelectSeq(loadedCourses, LAMBDA c : c.folderPath # path)
              /\ selectedBelongsTo(path) => selectedCourseId' = ""
              /\ selectedElsewhere(path) => selectedCourseId' = selectedCourseId]_vars

----------------------------------------------------------------------------
\* Claims about the progress store together with the course library (SpecApp)

\* the step loads or unloads a course in the courses slice
libraryStep ==
    \/ \E id \in CourseIds : removeCourse(id)
    \/ \E path \in FolderPaths : removeCourseFolder(path)
    \/ \E path \in FolderPaths, content \in FolderContents :
          loadCourseFromFolder(path, content)

\* the lesson records and the completed count of an entry
history(entry) ==
    [hasLessons |-> entry.hasLessons, lessons |-> entry.lessons,
     completedLessons |-> entry.completedLessons]

\* C17: an entry of the progress store stays until clearCourseProgress is
\* applied to its course; removing a course or its folder and loading it again
\* leaves the progress store alone, and initializeCourseProgressFromCourse on
\* an entry keeps its lesson records and its completed count.
C17_EntriesPersist ==
    [][/\ \A c \in CourseIds :
            courses[c].present => (courses'[c].present \/ clearCourseProgress(c))
       /\ libraryStep => courses' = courses
       /\ \A c \in CourseIds, q \in SectionShapes :
            (initializeCourseProgressFromCourse(c, q) /\ courses[c].present)
                => history(courses'[c]) = history(courses[c])]_vars

\* a course is back after its folder was removed, initialised again, with the
\* lesson record it had
C17_Witness ==
    /\ output # <<>>
    /\ output.op = "loadCourseFromFolder"
    /\ output.result = "fulfilled"
    /\ output.restored
    /\ hasCourse(loadedCourses, "c1")
    /\ last.op = "initializeCourseProgressFromCourse"
    /\ last.c = "c1"
    /\ last.readd
    /\ courses["c1"].present
    /\ courses["c1"].lessons["l1"].present
    /\ courses["c1"].completedLessons = 1

\* loadProgress settles in this step
loadSettles == loadSt = "pending" /\ loadSt' = "idle"

\* C18: every transition that changes the courses map, other than a load from
\* the progress file, leaves isDirty true.
C18_ChangeMarksDirty ==
    [][(courses' # courses /\ ~loadSettles) => isDirty']_vars

\* the import dialog or the export dialog is dismissed in this step
dialogCanceled ==
    \/ importProgressRejected("canceled")
    \/ exportProgressSettled("canceled")

\* an error notification is put up in this step
errorRaised ==
    /\ snackbar' # snackbar
    /\ snackbar'.open
    /\ snackbar'.severity = "error"

\* C19: dismissing the export or the import dialog is no failure: error stays
\* null, no error notification is raised, and courses, version and isDirty are
\* as before.
C19_CancelIsNotFailure ==
    [][dialogCanceled =>
          /\ error' = ""
          /\ ~errorRaised
          /\ UNCHANGED <<courses, version, isDirty>>]_vars

----------------------------------------------------------------------------
\* Further claims about the progress store (SpecProgress)

\* C26: initializeCourseProgressFromCourse changes only the entry of its
\* course: a missing entry is created with the lesson total, no completed
\* lesson and an empty lessons map; an existing entry gets the lesson total and
\* keeps everything else; the other entries and the rest of the store stay.
C26_InitTouchesTotalOnly ==
    [][\A c \in CourseIds, q \in SectionShapes :
          initializeCourseProgressFromCourse(c, q) =>
              /\ \A d \in CourseIds \ {c} : courses'[d] = courses[d]
              /\ UNCHANGED <<version, isLoading, isSaving, error, isDirty>>
              /\ courses'[c].present
              /\ courses'[c].totalLessons = SumSeq(q)
              /\ IF courses[c].present
                 THEN [courses'[c] EXCEPT !.totalLessons = 0] =
                          [courses[c] EXCEPT !.totalLessons = 0]
                 ELSE /\ courses'[c].completedLessons = 0
                      /\ courses'[c].hasLessons
                      /\ courses'[c].lessons = NoLessons]_vars

\* an entry loaded with two completed lessons has been initialised for a
\* course of one lesson
C26_Witness ==
    /\ last.op = "initializeCourseProgressFromCourse"
    /\ last.c = "c1"
    /\ courses["c1"].lessons["l1"].present
    /\ courses["c1"].completedLessons = 2
    /\ courses["c1"].totalLessons = 1

----------------------------------------------------------------------------
\* Claims about the selectors

\* every entry of the list has a lastWatched
allStamped(entries) == \A i \in 1..Len(entries) : entries[i].lastWatched # -1

\* the place in the list of the entry with the id
placeOf(entries, id) == CHOOSE i \in 1..Len(entries) : entries[i].courseId = id

\* C30: selectLastWatchedCourse gives null for no entries and otherwise the id
\* of an entry whose lastWatched is the latest of all, of several such entries
\* the one met last.
C30_LastWatchedIsLatest ==
    (output # <<>> /\ allStamped(input)) =>
        IF Len(input) = 0 THEN output.courseId = ""
        ELSE /\ \E i \in 1..Len(input) : input[i].courseId = output.courseId
             /\ LET at == placeOf(input, output.courseId)
                IN  /\ \A j \in 1..Len(input) :
                          input[j].lastWatched <= input[at].lastWatched
                    /\ \A j \in (at + 1)..Len(input) :
                          input[j].lastWatched < input[at].lastWatched

----------------------------------------------------------------------------
\* Further claims about the debounced save (SpecDebounce)

\* C22: at most one debounce timer is pending and at most one save started by
\* the scheduler is in flight, at any time.
C22_OneTimerOneSave ==
    /\ Cardinality(timers) <= 1
    /\ Cardinality(running) <= 1

----------------------------------------------------------------------------
\* Claims about the courses that get loaded (SpecManifest)

\* the number of lessons of a course: the lesson counts of its sections added up
lessonCount(sections) == SumSeq(sectionShape(sections))

\* C21: every loaded course carries totalLessons equal to the number of
\* lessons in its sections, and initializeCourseProgressFromCourse records the
\* same number in the course's progress entry.
C21_TotalLessonsIsSum ==
    [][/\ \A i \in 1..Len(loadedCourses') :
            loadedCourses'[i].totalLessons = lessonCount(loadedCourses'[i].sections)
       /\ \A i \in 1..Len(loadedCourses) :
            handleAddCourseInitialises(i) =>
                courses'[loadedCourses[i].id].totalLessons =
                    lessonCount(loadedCourses[i].sections)]_vars

\* C27: every loaded course has a non-empty id and at least one section.
C27_LoadedCoursesWellFormed ==
    \A i \in 1..Len(loadedCourses) :
        /\ loadedCourses[i].id # ""
        /\ loadedCourses[i].sections # <<>>

----------------------------------------------------------------------------
\* The course list filter (selectFilteredCourses, the same in both slices) over
\* the progress store.  Texts are sequences of characters.

\* String.prototype.toLowerCase
toLowerCase(text) == [i \in 1..Len(text) |-> IF text[i] = "A" THEN "a" ELSE text[i]]

\* String.prototype.includes
includes(text, query) ==
    \E i \in 0..(Len(text) - Len(query)) : SubSeq(text, i + 1, i + Len(query)) = query

\* a course of the list; a description or an instructor it lacks is <<>>
ListedCourse(id, title, description, instructor) ==
    [id |-> id, title |-> title, description |-> description, instructor |-> instructor]

Libraries ==
    { <<ListedCourse("c1", <<"A", "b">>, <<>>, <<"A">>),
        ListedCourse("c2", <<"b">>, <<"a">>, <<>>)>>,
      <<ListedCourse("c2", <<"b">>, <<>>, <<"a">>)>> }

CompletionStatuses == {"all", "completed", "in-progress", "not-started"}

FilterSettings ==
    [searchQuery : {<<>>, <<"a">>}, instructor : {<<>>, <<"A">>},
     completionStatus : CompletionStatuses]

\* the text search of the selector
matchesSearch(course, searchQuery) ==
    LET query == toLowerCase(searchQuery)
    IN  \/ includes(toLowerCase(course.title), query)
        \/ course.description # <<>> /\ includes(toLowerCase(course.description), query)
        \/ course.instructor # <<>> /\ includes(toLowerCase(course.instructor), query)

\* the callback of the completion filter, for a status other than 'all';
\* completionPercent is kept as the fraction num / den
matchesCompletion(status, courseProgress) ==
    IF ~courseProgress.present \/ courseProgress.totalLessons \in {-1, 0}
    THEN status = "not-started"
    ELSE LET num == cachedCount(courseProgress) * 100
             den == courseProgress.totalLessons
         IN  CASE status = "completed"   -> num = 100 * den
               [] status = "in-progress" -> num > 0 /\ num < 100 * den
               [] status = "not-started" -> num = 0
               [] OTHER                  -> TRUE

selectFilteredCourses(list, searchQuery, filters, progressCourses) ==
    LET searched == IF searchQuery # <<>>
                    THEN SelectSeq(list, LAMBDA course : matchesSearch(course, searchQuery))
                    ELSE list
        byInstructor == IF filters.instructor # <<>>
                        THEN SelectSeq(searched,
                                 LAMBDA course : course.instructor = filters.instructor)
                        ELSE searched
    IN  IF filters.completionStatus # "all"
        THEN SelectSeq(byInstructor,
                 LAMBDA course : matchesCompletion(filters.completionStatus,
                                                   progressCourses[course.id]))
        ELSE byInstructor

\* loadCoursesFromFolders.fulfilled: state.courses = action.payload
coursesLoaded(list) ==
    /\ output = <<>>
    /\ loadedCourses = <<>>
    /\ loadedCourses' = list
    /\ UNCHANGED <<storeVars, clock, ioVars, debVars, histVars, dialogVars,
                   selectedCourseId, courseFolders, input, output>>

\* the course list page reads the selector
applyFilteredCourses(f) ==
    /\ output = <<>>
    /\ loadedCourses # <<>>
    /\ output' = [op |-> "selectFilteredCourses", settings |-> f,
                  result |-> selectFilteredCourses(loadedCourses, f.searchQuery,
                                                   f, courses)]
    /\ UNCHANGED <<storeVars, clock, ioVars, debVars, histVars, dialogVars,
                   loadedCourses, selectedCourseId, courseFolders, input>>

NextFilter ==
    \/ output = <<>> /\ NextProgress
    \/ \E list \in Libraries : coursesLoaded(list)
    \/ \E f \in FilterSettings : applyFilteredCourses(f)

SpecFilter == InitProgress /\ [][NextFilter]_vars

----------------------------------------------------------------------------
\* Claims about loads and imports that meet unsaved progress

\* C23: a loadProgress that completes while isDirty is true leaves the
\* entries the store holds as they are and leaves isDirty true.
C23_LoadKeepsUnsaved ==
    [][(loadSettles /\ isDirty) =>
          /\ isDirty'
          /\ \A c \in CourseIds : courses[c].present => courses'[c] = courses[c]]_vars


\* the watched time of a lesson, 0 where it has no record
watched(cs, c, l) == IF hasRecord(cs, c, l) THEN cs[c].lessons[l].watchedDuration ELSE 0

\* the lesson has a record that is completed
done(cs, c, l) == hasRecord(cs, c, l) /\ cs[c].lessons[l].completed

\* importProgress is fulfilled in this step
importFulfils ==
    /\ importSt.phase = "dialog"
    /\ importSt'.phase = "idle"
    /\ last'.op = "importProgress.fulfilled"

\* C24: an import that completes lowers no lesson's watchedDuration and turns
\* no completed lesson incomplete, compared with the store just before.
C24_ImportNeverRegresses ==
    [][importFulfils =>
          \A c \in CourseIds, l \in LessonIds :
              /\ watched(courses', c, l) >= watched(courses, c, l)
              /\ done(courses, c, l) => done(courses', c, l)]_vars


\* C25: in every reachable state the cached completedLessons of every entry
\* (absent counted as 0) is the number of its completed lesson records.
C25_CacheIsCount ==
    \A c \in CourseIds :
        (courses[c].present /\ ~lessonsUndefined(courses, c)) =>
            cachedCount(courses[c]) = completedCount(courses[c].lessons)


\* C28: every entry of the store has a lessons map, and no reducer has raised.
\* selectTotalWatchTime reads Object.values(courseProgress.lessons) of every
\* entry, so it is defined exactly where the first conjunct holds.
C28_EntriesHaveLessons ==
    /\ \A c \in CourseIds : courses[c].present => courses[c].hasLessons
    /\ ~thrown


\* the bucket the completion filter is described to put a course in
bucketOf(courseProgress) ==
    LET total == courseProgress.totalLessons
        completed == cachedCount(courseProgress)
    IN  IF ~courseProgress.present \/ total \in {-1, 0} \/ completed = 0
        THEN "not-started"
        ELSE IF 0 < completed /\ completed < total THEN "in-progress"
        ELSE IF completed = total /\ total > 0 THEN "completed"
        ELSE "none"

\* the course satisfies every active filter
satisfiesAll(course, f, progressCourses) ==
    /\ f.searchQuery # <<>> =>
          \E text \in {course.title, course.description, course.instructor} :
              includes(toLowerCase(text), toLowerCase(f.searchQuery))
    /\ f.instructor # <<>> => course.instructor = f.instructor
    /\ f.completionStatus # "all" => bucketOf(progressCourses[course.id]) = f.completionStatus

\* the courses of the list that satisfy every active filter, in list order
satisfying(list, f, progressCourses) ==
    SelectSeq(list, LAMBDA course : satisfiesAll(course, f, progressCourses))

\* the selector is read in this step
filterRead == output = <<>> /\ output' # <<>>

\* C29: selectFilteredCourses returns exactly the loaded courses that satisfy
\* every active filter, and every loaded course is matched by exactly one of
\* the three completion filters.
C29_FilterPartitions ==
    [][filterRead =>
          /\ output'.result = satisfying(loadedCourses, output'.settings, courses)
          /\ \A i \in 1..Len(loadedCourses) :
                Cardinality({status \in CompletionStatuses \ {"all"} :
                    matchesCompletion(status, courses[loadedCourses[i].id])}) = 1]_vars

====
